---- MODULE Spec2Model ----
(***************************************************************************)
(* The Mac floppy "serial" side channel of fujinet-firmware:               *)
(*   lib/device/mac/floppy_serial_bridge.cpp   (handshake, header codec)   *)
(*   lib/device/mac/floppy_serial_handler.cpp  (loopback handler, fifo)    *)
(* Bytes are the integers 0..255.  A C buffer b[0..n-1] is the sequence    *)
(* <<b[0], ..., b[n-1]>>, so C index i is TLA+ index i+1.                  *)
(***************************************************************************)
EXTENDS Integers, Sequences, FiniteSets, TLC

(***************************************************************************)
(* Program constants.                                                      *)
(***************************************************************************)
MAC_SERIAL_KNOCK_SEQ == <<0, 70, 85, 74, 73>>
MAC_SERIAL_REQUEST_TAG == <<78, 68, 69, 86>>          \* "NDEV"
MAC_SERIAL_REPLY_TAG == <<70, 85, 74, 73>>            \* "FUJI"
MAC_SERIAL_HEADER_LEN == 12
MAC_SERIAL_NEGATIVE_LBA == 8388607                    \* 0x007FFFFF
BLOCK_SIZE == 512
FIFO_SIZE == 2000
UINT16_MAX == 65535

MAC_SERIAL_WAIT_KNOCK == "WAIT_KNOCK"
MAC_SERIAL_WAIT_MAGIC_WRITE == "WAIT_MAGIC_WRITE"
MAC_SERIAL_WAIT_MAGIC_READ == "WAIT_MAGIC_READ"
MAC_SERIAL_WAIT_MAGIC_SECTOR == "WAIT_MAGIC_SECTOR"
States == {MAC_SERIAL_WAIT_KNOCK, MAC_SERIAL_WAIT_MAGIC_WRITE,
           MAC_SERIAL_WAIT_MAGIC_READ, MAC_SERIAL_WAIT_MAGIC_SECTOR}

MAC_SERIAL_READ == "READ"
MAC_SERIAL_WRITE == "WRITE"
Modes == {MAC_SERIAL_READ, MAC_SERIAL_WRITE}

(***************************************************************************)
(* Bounds of the model: the drive ids and the sector addresses the host    *)
(* uses besides the knock addresses and the negative LBA.                  *)
(***************************************************************************)
MaxDrive == 1
MaxExtra == 1

Drives == 0..MaxDrive
\* 0x01020304, 0x02040608, ...: addresses whose four bytes all differ.
ExtraSectors == {i * 16909060 : i \in 1..MaxExtra}
Sectors == {MAC_SERIAL_KNOCK_SEQ[i] : i \in 1..Len(MAC_SERIAL_KNOCK_SEQ)}
             \cup {MAC_SERIAL_NEGATIVE_LBA} \cup ExtraSectors

MIN(a, b) == IF a < b THEN a ELSE b
NELEMENTS(a) == Len(a)
CHARS_TO_UINT16(a, b) == (((a % 65536) * 256) % 65536) + (b % 256)
UINT16_HI_BYTE(a) == (a \div 256) % 256
UINT16_LO_BYTE(a) == a % 256

(***************************************************************************)
(* Header codec.                                                           *)
(***************************************************************************)
\* Mutant: the two length bytes in the wrong order.
put_header_swapped(buff, len) ==
    [i \in 1..Len(buff) |->
        IF i <= 4 THEN MAC_SERIAL_REPLY_TAG[i]
        ELSE IF i = 7 THEN UINT16_LO_BYTE(len)
        ELSE IF i = 8 THEN UINT16_HI_BYTE(len)
        ELSE IF i <= MAC_SERIAL_HEADER_LEN THEN 0
        ELSE buff[i]]

mac_serial_put_header(buff, len) ==
    [i \in 1..Len(buff) |->
        IF i <= 4 THEN MAC_SERIAL_REPLY_TAG[i]
        ELSE IF i = 7 THEN UINT16_HI_BYTE(len)
        ELSE IF i = 8 THEN UINT16_LO_BYTE(len)
        ELSE IF i <= MAC_SERIAL_HEADER_LEN THEN 0
        ELSE buff[i]]

\* The result of mac_serial_get_header on buff when *len held old before.
mac_serial_get_header(buff, old) ==
    IF SubSeq(buff, 1, 4) # MAC_SERIAL_REQUEST_TAG
    THEN [ok |-> FALSE, len |-> old]
    ELSE [ok |-> TRUE, len |-> CHARS_TO_UINT16(buff[7], buff[8])]

(***************************************************************************)
(* Knock detection: the new counter and the return value.                  *)
(***************************************************************************)
\* Mutant: the counter is not set back when the knock is complete.
detect_knock_no_wrap(knock, sector) ==
    IF sector = MAC_SERIAL_KNOCK_SEQ[knock + 1]
    THEN IF knock + 1 = NELEMENTS(MAC_SERIAL_KNOCK_SEQ)
         THEN [knock |-> knock + 1, ret |-> TRUE]
         ELSE [knock |-> knock + 1, ret |-> FALSE]
    ELSE [knock |-> 0, ret |-> FALSE]

\* Mutant: a mismatch leaves the counter where it was.
detect_knock_no_reset(knock, sector) ==
    IF sector = MAC_SERIAL_KNOCK_SEQ[knock + 1]
    THEN IF knock + 1 = NELEMENTS(MAC_SERIAL_KNOCK_SEQ)
         THEN [knock |-> 0, ret |-> TRUE]
         ELSE [knock |-> knock + 1, ret |-> FALSE]
    ELSE [knock |-> knock, ret |-> FALSE]

mac_serial_detect_knock_sequence(knock, sector) ==
    IF sector = MAC_SERIAL_KNOCK_SEQ[knock + 1]
    THEN IF knock + 1 = NELEMENTS(MAC_SERIAL_KNOCK_SEQ)
         THEN [knock |-> 0, ret |-> TRUE]
         ELSE [knock |-> knock + 1, ret |-> FALSE]
    ELSE [knock |-> 0, ret |-> FALSE]

(***************************************************************************)
(* Fifo queue object.  fifoData holds the fifoLen live bytes of the array. *)
(***************************************************************************)
fifoBytesAvailable(fb) == fb.fifoLen

\* Mutant: the bytes left are not moved to the front of the array.
fifo_get_no_shift(fb, len) ==
    LET dataToReturn == MIN(fb.fifoLen, len) IN
    [buf |-> SubSeq(fb.fifoData, 1, dataToReturn),
     ret |-> dataToReturn,
     fb  |-> [fifoLen  |-> fb.fifoLen - dataToReturn,
              fifoData |-> SubSeq(fb.fifoData, 1, fb.fifoLen - dataToReturn)]]

\* The bytes copied out, the count returned and the fifo left.
fifoGetData(fb, len) ==
    LET dataToReturn == MIN(fb.fifoLen, len) IN
    [buf |-> SubSeq(fb.fifoData, 1, dataToReturn),
     ret |-> dataToReturn,
     fb  |-> [fifoLen  |-> fb.fifoLen - dataToReturn,
              fifoData |-> SubSeq(fb.fifoData, dataToReturn + 1, fb.fifoLen)]]

\* Mutant: a batch that does not fit is put in as far as there is room.
fifo_put_partial(fb, buf, len) ==
    LET n == MIN(len, FIFO_SIZE - fb.fifoLen) IN
    [fifoLen  |-> fb.fifoLen + n,
     fifoData |-> SubSeq(fb.fifoData, 1, fb.fifoLen) \o SubSeq(buf, 1, n)]

\* Mutant: a batch is put in front of the bytes the fifo holds.
fifo_put_front(fb, buf, len) ==
    IF fb.fifoLen + len <= FIFO_SIZE
    THEN [fifoLen  |-> fb.fifoLen + len,
          fifoData |-> SubSeq(buf, 1, len) \o SubSeq(fb.fifoData, 1, fb.fifoLen)]
    ELSE fb

fifoPutData(fb, buf, len) ==
    IF fb.fifoLen + len <= FIFO_SIZE
    THEN [fifoLen  |-> fb.fifoLen + len,
          fifoData |-> SubSeq(fb.fifoData, 1, fb.fifoLen) \o SubSeq(buf, 1, len)]
    ELSE fb

\* buf with the bytes of data written at C offset off.
CopyInto(buf, off, data) ==
    [i \in 1..Len(buf) |->
        IF i > off /\ i <= off + Len(data) THEN data[i - off] ELSE buf[i]]

(***************************************************************************)
(* mac_serial_handler in the loopback build, called on blk + off:          *)
(* the value returned, the fifo and the block afterwards.                  *)
(***************************************************************************)
\* Mutant: a read returns the count of the bytes it copied.
handler_returns_bytes_read(fb, blk, off, buffer_size, mode) ==
    IF mode = MAC_SERIAL_READ
    THEN LET got == fifoGetData(fb, buffer_size)
         IN [ret |-> got.ret, fifo |-> got.fb, blk |-> CopyInto(blk, off, got.buf)]
    ELSE [ret  |-> 0,
          fifo |-> fifoPutData(fb, SubSeq(blk, off + 1, off + buffer_size), buffer_size),
          blk  |-> blk]

mac_serial_handler(fb, blk, off, buffer_size, mode) ==
    IF mode = MAC_SERIAL_READ
    THEN LET availData == fifoBytesAvailable(fb)
             got == fifoGetData(fb, buffer_size)
         IN [ret |-> availData, fifo |-> got.fb, blk |-> CopyInto(blk, off, got.buf)]
    ELSE [ret  |-> 0,
          fifo |-> fifoPutData(fb, SubSeq(blk, off + 1, off + buffer_size), buffer_size),
          blk  |-> blk]

\* Mutant: a read asks the handler for a whole block of bytes, not for what
\* the block holds after the header.
magic_sector_io_reads_block_size(fb, tagPtr, blkPtr, mode) ==
    IF mode = MAC_SERIAL_READ
    THEN LET h == mac_serial_handler(fb, blkPtr, MAC_SERIAL_HEADER_LEN, BLOCK_SIZE, mode)
         IN [ret |-> TRUE, fifo |-> h.fifo, blk |-> mac_serial_put_header(h.blk, h.ret),
             hoff |-> MAC_SERIAL_HEADER_LEN, hlen |-> BLOCK_SIZE]
    ELSE LET inTags == mac_serial_get_header(tagPtr, 0)
             headerInTags == inTags.ok
             inBlk == mac_serial_get_header(blkPtr, inTags.len)
         IN IF headerInTags \/ inBlk.ok
            THEN LET headerSize == IF headerInTags THEN 0 ELSE MAC_SERIAL_HEADER_LEN
                     decoded == IF headerInTags THEN inTags.len ELSE inBlk.len
                     len == IF decoded > BLOCK_SIZE - headerSize
                            THEN BLOCK_SIZE - headerSize ELSE decoded
                     h == mac_serial_handler(fb, blkPtr, headerSize, len, mode)
                 IN [ret |-> TRUE, fifo |-> h.fifo, blk |-> h.blk,
                     hoff |-> headerSize, hlen |-> len]
            ELSE [ret |-> FALSE, fifo |-> fb, blk |-> blkPtr, hoff |-> -1, hlen |-> -1]

\* Mutant: a write without a header is forwarded as a whole block.
magic_sector_io_forwards_raw(fb, tagPtr, blkPtr, mode) ==
    IF mode = MAC_SERIAL_READ
    THEN LET h == mac_serial_handler(fb, blkPtr, MAC_SERIAL_HEADER_LEN,
                                     BLOCK_SIZE - MAC_SERIAL_HEADER_LEN, mode)
         IN [ret |-> TRUE, fifo |-> h.fifo, blk |-> mac_serial_put_header(h.blk, h.ret),
             hoff |-> MAC_SERIAL_HEADER_LEN, hlen |-> BLOCK_SIZE - MAC_SERIAL_HEADER_LEN]
    ELSE LET inTags == mac_serial_get_header(tagPtr, 0)
             headerInTags == inTags.ok
             inBlk == mac_serial_get_header(blkPtr, inTags.len)
             headerSize == IF headerInTags \/ ~inBlk.ok THEN 0 ELSE MAC_SERIAL_HEADER_LEN
             decoded == IF headerInTags THEN inTags.len
                        ELSE IF inBlk.ok THEN inBlk.len ELSE BLOCK_SIZE
             len == IF decoded > BLOCK_SIZE - headerSize
                    THEN BLOCK_SIZE - headerSize ELSE decoded
             h == mac_serial_handler(fb, blkPtr, headerSize, len, mode)
         IN [ret |-> TRUE, fifo |-> h.fifo, blk |-> h.blk,
             hoff |-> headerSize, hlen |-> len]

\* Mutant: the header in the block is taken before the one in the tags.
magic_sector_io_prefers_block(fb, tagPtr, blkPtr, mode) ==
    IF mode = MAC_SERIAL_READ
    THEN LET h == mac_serial_handler(fb, blkPtr, MAC_SERIAL_HEADER_LEN,
                                     BLOCK_SIZE - MAC_SERIAL_HEADER_LEN, mode)
         IN [ret |-> TRUE, fifo |-> h.fifo, blk |-> mac_serial_put_header(h.blk, h.ret),
             hoff |-> MAC_SERIAL_HEADER_LEN, hlen |-> BLOCK_SIZE - MAC_SERIAL_HEADER_LEN]
    ELSE LET inBlk == mac_serial_get_header(blkPtr, 0)
             headerInBlk == inBlk.ok
             inTags == mac_serial_get_header(tagPtr, inBlk.len)
         IN IF headerInBlk \/ inTags.ok
            THEN LET headerSize == IF headerInBlk THEN MAC_SERIAL_HEADER_LEN ELSE 0
                     decoded == IF headerInBlk THEN inBlk.len ELSE inTags.len
                     len == IF decoded > BLOCK_SIZE - headerSize
                            THEN BLOCK_SIZE - headerSize ELSE decoded
                     h == mac_serial_handler(fb, blkPtr, headerSize, len, mode)
                 IN [ret |-> TRUE, fifo |-> h.fifo, blk |-> h.blk,
                     hoff |-> headerSize, hlen |-> len]
            ELSE [ret |-> FALSE, fifo |-> fb, blk |-> blkPtr, hoff |-> -1, hlen |-> -1]

(***************************************************************************)
(* mac_serial_magic_sector_io: handled?, the fifo and the block afterwards *)
(* (the tag buffer is only read), with the offset into the block and the   *)
(* size it passed to mac_serial_handler (-1 when it did not call it).      *)
(***************************************************************************)
mac_serial_magic_sector_io(fb, tagPtr, blkPtr, mode) ==
    IF mode = MAC_SERIAL_READ
    THEN LET h == mac_serial_handler(fb, blkPtr, MAC_SERIAL_HEADER_LEN,
                                     BLOCK_SIZE - MAC_SERIAL_HEADER_LEN, mode)
         IN [ret |-> TRUE, fifo |-> h.fifo, blk |-> mac_serial_put_header(h.blk, h.ret),
             hoff |-> MAC_SERIAL_HEADER_LEN, hlen |-> BLOCK_SIZE - MAC_SERIAL_HEADER_LEN]
    ELSE LET inTags == mac_serial_get_header(tagPtr, 0)
             headerInTags == inTags.ok
             inBlk == mac_serial_get_header(blkPtr, inTags.len)
         IN IF headerInTags \/ inBlk.ok
            THEN LET headerSize == IF headerInTags THEN 0 ELSE MAC_SERIAL_HEADER_LEN
                     decoded == IF headerInTags THEN inTags.len ELSE inBlk.len
                     len == IF decoded > BLOCK_SIZE - headerSize
                            THEN BLOCK_SIZE - headerSize ELSE decoded
                     h == mac_serial_handler(fb, blkPtr, headerSize, len, mode)
                 IN [ret |-> TRUE, fifo |-> h.fifo, blk |-> h.blk,
                     hoff |-> headerSize, hlen |-> len]
            ELSE [ret |-> FALSE, fifo |-> fb, blk |-> blkPtr, hoff |-> -1, hlen |-> -1]

(***************************************************************************)
(* is_mac_serial_io.  s is the session: [state, knock, drive, sector,      *)
(* fifo].  Every piece yields the session, both buffers and the value      *)
(* returned, with what the call did: knocked (the knock sequence was       *)
(* completed), delegated (mac_serial_magic_sector_io was called) and       *)
(* rejectAt (the byte at which the magic check logged a rejection, 512     *)
(* when the block passed, -1 when the check did not run).                  *)
(***************************************************************************)
Out(s, tag, blk, ret, knocked, delegated, rejectAt) ==
    [s |-> s, tag |-> tag, blk |-> blk, ret |-> ret,
     knocked |-> knocked, delegated |-> delegated, rejectAt |-> rejectAt]

\* Mutant: the negative LBA resets the phase also when it is Active.
NegativeLbaAlwaysResets(s, tagPtr, blkPtr, mode) ==
    LET io == mac_serial_magic_sector_io(s.fifo, tagPtr, blkPtr, mode)
    IN Out([s EXCEPT !.state = MAC_SERIAL_WAIT_KNOCK, !.fifo = io.fifo],
           tagPtr, io.blk, TRUE, FALSE, TRUE, -1)

\* sector == MAC_SERIAL_NEGATIVE_LBA
NegativeLba(s, tagPtr, blkPtr, mode) ==
    LET io == mac_serial_magic_sector_io(s.fifo, tagPtr, blkPtr, mode)
        state == IF s.state # MAC_SERIAL_WAIT_MAGIC_SECTOR
                 THEN MAC_SERIAL_WAIT_KNOCK ELSE s.state
    IN Out([s EXCEPT !.state = state, !.fifo = io.fifo],
           tagPtr, io.blk, TRUE, FALSE, TRUE, -1)

\* Mutant: the completed knock is not announced in the tag buffer.
KnockStepSilent(s, drive, sector, tagPtr) ==
    LET k == mac_serial_detect_knock_sequence(s.knock, sector) IN
    IF k.ret
    THEN [s |-> [s EXCEPT !.knock = k.knock,
                          !.state = MAC_SERIAL_WAIT_MAGIC_WRITE,
                          !.drive = drive,
                          !.sector = 0],
          tag |-> tagPtr,
          knocked |-> TRUE]
    ELSE [s |-> [s EXCEPT !.knock = k.knock], tag |-> tagPtr, knocked |-> FALSE]

\* The session and the tag buffer after the knock detection step.
KnockStep(s, drive, sector, tagPtr) ==
    LET k == mac_serial_detect_knock_sequence(s.knock, sector) IN
    IF k.ret
    THEN [s |-> [s EXCEPT !.knock = k.knock,
                          !.state = MAC_SERIAL_WAIT_MAGIC_WRITE,
                          !.drive = drive,
                          !.sector = 0],
          tag |-> mac_serial_put_header(tagPtr, 0),
          knocked |-> TRUE]
    ELSE [s |-> [s EXCEPT !.knock = k.knock], tag |-> tagPtr, knocked |-> FALSE]

\* Mutant: the case lacks its break and runs into the next one.
WaitKnockFallsThrough(s, drive, sector, tagPtr, blkPtr, mode, knocked) ==
    IF mode = MAC_SERIAL_WRITE /\ drive = s.drive
    THEN Out([s EXCEPT !.sector = sector, !.state = MAC_SERIAL_WAIT_MAGIC_READ],
             tagPtr, blkPtr, TRUE, knocked, FALSE, -1)
    ELSE Out(s, tagPtr, blkPtr, FALSE, knocked, FALSE, -1)

\* case MAC_SERIAL_WAIT_KNOCK
WaitKnock(s, drive, sector, tagPtr, blkPtr, mode, knocked) ==
    Out(s, tagPtr, blkPtr, FALSE, knocked, FALSE, -1)

\* The loop over the 512 bytes of the block: the first byte that is not the
\* repeated request tag, 512 when there is none.
MagicRejectAt(blkPtr) ==
    LET bad == {i \in 0..(BLOCK_SIZE - 1) :
                   blkPtr[i + 1] # MAC_SERIAL_REQUEST_TAG[(i % 4) + 1]}
    IN IF bad = {} THEN BLOCK_SIZE
       ELSE CHOOSE i \in bad : \A j \in bad : i <= j

\* Mutant: a block that fails the magic check is not accepted.
WaitMagicWriteEnforced(s, drive, sector, tagPtr, blkPtr, mode, knocked) ==
    IF mode = MAC_SERIAL_WRITE /\ drive = s.drive /\ MagicRejectAt(blkPtr) = BLOCK_SIZE
    THEN Out([s EXCEPT !.sector = sector, !.state = MAC_SERIAL_WAIT_MAGIC_READ],
             tagPtr, blkPtr, TRUE, knocked, FALSE, MagicRejectAt(blkPtr))
    ELSE Out(s, tagPtr, blkPtr, FALSE, knocked, FALSE, -1)

\* case MAC_SERIAL_WAIT_MAGIC_WRITE
WaitMagicWrite(s, drive, sector, tagPtr, blkPtr, mode, knocked) ==
    IF mode = MAC_SERIAL_WRITE /\ drive = s.drive
    THEN Out([s EXCEPT !.sector = sector, !.state = MAC_SERIAL_WAIT_MAGIC_READ],
             tagPtr, blkPtr, TRUE, knocked, FALSE, MagicRejectAt(blkPtr))
    ELSE Out(s, tagPtr, blkPtr, FALSE, knocked, FALSE, -1)

\* Mutant: the four bytes of the sector address, least significant first.
SectorBytesLittleEndian(sector) ==
    <<sector % 256, (sector \div 256) % 256,
      (sector \div 65536) % 256, (sector \div 16777216) % 256>>

\* The four bytes of the sector address, most significant first.
SectorBytes(sector) ==
    <<(sector \div 16777216) % 256, (sector \div 65536) % 256,
      (sector \div 256) % 256, sector % 256>>

\* case MAC_SERIAL_WAIT_MAGIC_READ
WaitMagicRead(s, drive, sector, tagPtr, blkPtr, mode, knocked) ==
    IF mode = MAC_SERIAL_READ /\ drive = s.drive /\ sector = s.sector
    THEN Out([s EXCEPT !.state = MAC_SERIAL_WAIT_MAGIC_SECTOR],
             mac_serial_put_header(tagPtr, 8),
             CopyInto(blkPtr, 0, MAC_SERIAL_REPLY_TAG \o SectorBytes(s.sector)),
             TRUE, knocked, FALSE, -1)
    ELSE Out(s, tagPtr, blkPtr, FALSE, knocked, FALSE, -1)

\* Mutant: an access to another drive or sector ends the session.
WaitMagicSectorDropsOut(s, drive, sector, tagPtr, blkPtr, mode, knocked) ==
    IF drive = s.drive /\ sector = s.sector
    THEN LET io == mac_serial_magic_sector_io(s.fifo, tagPtr, blkPtr, mode)
         IN Out([s EXCEPT !.fifo = io.fifo], tagPtr, io.blk, io.ret,
                knocked, TRUE, -1)
    ELSE Out([s EXCEPT !.state = MAC_SERIAL_WAIT_KNOCK], tagPtr, blkPtr, FALSE,
             knocked, FALSE, -1)

\* Mutant: a write that the channel refuses ends the session.
WaitMagicSectorRefusalEnds(s, drive, sector, tagPtr, blkPtr, mode, knocked) ==
    IF drive = s.drive /\ sector = s.sector
    THEN LET io == mac_serial_magic_sector_io(s.fifo, tagPtr, blkPtr, mode)
         IN Out([s EXCEPT !.fifo = io.fifo,
                          !.state = IF io.ret THEN @ ELSE MAC_SERIAL_WAIT_KNOCK],
                tagPtr, io.blk, io.ret, knocked, TRUE, -1)
    ELSE Out(s, tagPtr, blkPtr, FALSE, knocked, FALSE, -1)

\* Mutant: the drive is not compared.
WaitMagicSectorAnyDrive(s, drive, sector, tagPtr, blkPtr, mode, knocked) ==
    IF sector = s.sector
    THEN LET io == mac_serial_magic_sector_io(s.fifo, tagPtr, blkPtr, mode)
         IN Out([s EXCEPT !.fifo = io.fifo], tagPtr, io.blk, io.ret,
                knocked, TRUE, -1)
    ELSE Out(s, tagPtr, blkPtr, FALSE, knocked, FALSE, -1)

\* case MAC_SERIAL_WAIT_MAGIC_SECTOR
WaitMagicSector(s, drive, sector, tagPtr, blkPtr, mode, knocked) ==
    IF drive = s.drive /\ sector = s.sector
    THEN LET io == mac_serial_magic_sector_io(s.fifo, tagPtr, blkPtr, mode)
         IN Out([s EXCEPT !.fifo = io.fifo], tagPtr, io.blk, io.ret,
                knocked, TRUE, -1)
    ELSE Out(s, tagPtr, blkPtr, FALSE, knocked, FALSE, -1)

is_mac_serial_io(s, drive, sector, tagPtr, blkPtr, mode) ==
    IF sector = MAC_SERIAL_NEGATIVE_LBA
    THEN NegativeLba(s, tagPtr, blkPtr, mode)
    ELSE LET k == KnockStep(s, drive, sector, tagPtr) IN
         CASE k.s.state = MAC_SERIAL_WAIT_KNOCK ->
                WaitKnock(k.s, drive, sector, k.tag, blkPtr, mode, k.knocked)
           [] k.s.state = MAC_SERIAL_WAIT_MAGIC_WRITE ->
                WaitMagicWrite(k.s, drive, sector, k.tag, blkPtr, mode, k.knocked)
           [] k.s.state = MAC_SERIAL_WAIT_MAGIC_READ ->
                WaitMagicRead(k.s, drive, sector, k.tag, blkPtr, mode, k.knocked)
           [] k.s.state = MAC_SERIAL_WAIT_MAGIC_SECTOR ->
                WaitMagicSector(k.s, drive, sector, k.tag, blkPtr, mode, k.knocked)
           [] OTHER ->
                Out(k.s, k.tag, blkPtr, FALSE, k.knocked, FALSE, -1)

(***************************************************************************)
(* The buffers the disk I/O path passes in.                                *)
(***************************************************************************)
TAG_SIZE == 12
ZeroTag == [i \in 1..TAG_SIZE |-> 0]
ZeroBlock == [i \in 1..BLOCK_SIZE |-> 0]
\* 128 repetitions of the request tag.
MagicBlock == [i \in 1..BLOCK_SIZE |-> MAC_SERIAL_REQUEST_TAG[((i - 1) % 4) + 1]]
\* A request header as the Mac driver sends it.
RequestHeader(len) ==
    MAC_SERIAL_REQUEST_TAG \o <<0, 0, UINT16_HI_BYTE(len), UINT16_LO_BYTE(len), 0, 0, 0, 0>>
Tags == {ZeroTag, RequestHeader(0)}
Blocks == {ZeroBlock, MagicBlock}

(***************************************************************************)
(* State.  The session and the fifo are the program's; the rest records    *)
(* the last call of is_mac_serial_io: its arguments, the session before    *)
(* it (pre, with the length of the fifo for the fifo), the buffers and the *)
(* value it returned, and what it did.  streak counts the latest calls     *)
(* whose addresses are the knock sequence from its first element on,       *)
(* streak0 is the knock counter before the first of them, and run counts   *)
(* like streak but passes over the calls at the negative LBA.  The c*      *)
(* variables belong to the header codec specification.  The last group     *)
(* belongs to the specifications of the fifo and of the channel: pushed    *)
(* is the concatenation of the batches the fifo had room for, popped that  *)
(* of the bytes taken out, ops the number of operations so far, opLen and  *)
(* opRet the length passed to and the count returned by the last fifo      *)
(* operation, opOff the offset into the block of the bytes it was passed,  *)
(* handled the value mac_serial_magic_sector_io returned, and drain the    *)
(* length of the fifo when the host stopped writing with the number of     *)
(* reads that found bytes in the fifo since.  twin is the session of a     *)
(* second run of the program, which gets the calls of the first with       *)
(* buffers of its own, with what its last call returned.                   *)
(***************************************************************************)
VARIABLES mac_serial_state, mac_serial_knock, mac_serial_drive, mac_serial_sector,
          fifo, pc, pre, argDrive, argSector, argMode, tagIn, blkIn,
          tagOut, blkOut, ret, knocked, delegated, rejectAt, streak, streak0, run,
          cpc, clen, cbuf, cdec,
          pushed, popped, ops, opLen, opRet, opOff, handled, drain, twin

session == <<mac_serial_state, mac_serial_knock, mac_serial_drive, mac_serial_sector, fifo>>
lastCall == <<pc, pre, argDrive, argSector, argMode, tagIn, blkIn,
              tagOut, blkOut, ret, knocked, delegated, rejectAt>>
observer == <<streak, streak0, run>>
codec == <<cpc, clen, cbuf, cdec>>
loopback == <<pushed, popped, ops, opLen, opRet, opOff, handled, drain>>
vars == <<session, lastCall, observer, codec, loopback, twin>>

Session == [state |-> mac_serial_state, knock |-> mac_serial_knock,
            drive |-> mac_serial_drive, sector |-> mac_serial_sector, fifo |-> fifo]

NoCall ==
    /\ pc = "idle"
    /\ pre = [state |-> MAC_SERIAL_WAIT_KNOCK, knock |-> 0, drive |-> 0, sector |-> 0,
              fifoLen |-> 0]
    /\ argDrive = 0 /\ argSector = 0 /\ argMode = MAC_SERIAL_READ
    /\ tagIn = <<>> /\ blkIn = <<>> /\ tagOut = <<>> /\ blkOut = <<>>
    /\ ret = FALSE /\ knocked = FALSE /\ delegated = FALSE /\ rejectAt = -1

CodecOff == cpc = "off" /\ clen = 0 /\ cbuf = <<>> /\ cdec = [ok |-> FALSE, len |-> 0]

TwinOff ==
    twin = [state |-> MAC_SERIAL_WAIT_KNOCK, knock |-> 0, drive |-> 0, sector |-> 0,
            fifo |-> [fifoLen |-> 0, fifoData |-> <<>>], ret |-> FALSE]

LoopbackOff ==
    /\ pushed = <<>> /\ popped = <<>> /\ ops = 0
    /\ opLen = 0 /\ opRet = 0 /\ opOff = 0 /\ handled = FALSE
    /\ drain = [from |-> 0, reads |-> 0]
    /\ TwinOff

\* Globals are zero-initialised; the fifo is {0,0}.
Init ==
    /\ mac_serial_state = MAC_SERIAL_WAIT_KNOCK
    /\ mac_serial_knock = 0
    /\ mac_serial_drive = 0
    /\ mac_serial_sector = 0
    /\ fifo = [fifoLen |-> 0, fifoData |-> <<>>]
    /\ NoCall
    /\ streak = 0 /\ streak0 = 0 /\ run = 0
    /\ CodecOff
    /\ LoopbackOff

\* How many of the latest calls, this one included, carry the knock
\* addresses in order from the first one.
NextStreak(n, sector) ==
    IF n < Len(MAC_SERIAL_KNOCK_SEQ) /\ sector = MAC_SERIAL_KNOCK_SEQ[n + 1] THEN n + 1
    ELSE IF sector = MAC_SERIAL_KNOCK_SEQ[1] THEN 1
    ELSE 0

\* One call of is_mac_serial_io with buffers drawn from tags and blocks.
Call(tags, blocks) ==
    /\ pc = "idle"
    /\ \E drive \in Drives, sector \in Sectors, mode \in Modes,
          tagPtr \in tags, blkPtr \in blocks :
         \E r \in {is_mac_serial_io(Session, drive, sector, tagPtr, blkPtr, mode)} :
            /\ mac_serial_state' = r.s.state
            /\ mac_serial_knock' = r.s.knock
            /\ mac_serial_drive' = r.s.drive
            /\ mac_serial_sector' = r.s.sector
            /\ fifo' = r.s.fifo
            /\ pc' = "returned"
            /\ pre' = [state |-> mac_serial_state, knock |-> mac_serial_knock,
                        drive |-> mac_serial_drive, sector |-> mac_serial_sector,
                        fifoLen |-> fifo.fifoLen]
            /\ argDrive' = drive /\ argSector' = sector /\ argMode' = mode
            /\ tagIn' = tagPtr /\ blkIn' = blkPtr
            /\ tagOut' = r.tag /\ blkOut' = r.blk
            /\ ret' = r.ret /\ knocked' = r.knocked /\ delegated' = r.delegated
            /\ rejectAt' = r.rejectAt
    /\ UNCHANGED <<codec, loopback, twin>>

\* One sector access: the disk I/O path calls is_mac_serial_io.
IsMacSerialIo ==
    /\ Call(Tags, Blocks)
    /\ UNCHANGED observer

\* The same with the run of knock addresses observed; the buffers carry no
\* header, so that the fifo stays empty.
IsMacSerialIoObserved ==
    /\ Call({ZeroTag}, {ZeroBlock})
    /\ streak' = NextStreak(streak, argSector')
    /\ streak0' = IF streak' = 0 THEN 0
                  ELSE IF streak' = 1 THEN mac_serial_knock ELSE streak0
    /\ run' = IF argSector' = MAC_SERIAL_NEGATIVE_LBA THEN run
              ELSE NextStreak(run, argSector')

\* The caller hands the buffers back to the host; they are per-call.
ReturnToHost ==
    /\ pc = "returned"
    /\ pc' = "idle"
    /\ pre' = [state |-> MAC_SERIAL_WAIT_KNOCK, knock |-> 0, drive |-> 0, sector |-> 0,
               fifoLen |-> 0]
    /\ argDrive' = 0 /\ argSector' = 0 /\ argMode' = MAC_SERIAL_READ
    /\ tagIn' = <<>> /\ blkIn' = <<>> /\ tagOut' = <<>> /\ blkOut' = <<>>
    /\ ret' = FALSE /\ knocked' = FALSE /\ delegated' = FALSE /\ rejectAt' = -1
    /\ UNCHANGED <<session, observer, codec, loopback, twin>>

Next == IsMacSerialIo \/ ReturnToHost

Spec == Init /\ [][Next]_vars

NextKnock == IsMacSerialIoObserved \/ ReturnToHost

SpecKnock == Init /\ [][NextKnock]_vars

(***************************************************************************)
(* The header codec alone: a 12-byte buffer that holds either no header or *)
(* a request header of length clen, into which mac_serial_put_header       *)
(* encodes clen and which mac_serial_get_header decodes.                   *)
(***************************************************************************)
CodecInit ==
    /\ mac_serial_state = MAC_SERIAL_WAIT_KNOCK
    /\ mac_serial_knock = 0
    /\ mac_serial_drive = 0
    /\ mac_serial_sector = 0
    /\ fifo = [fifoLen |-> 0, fifoData |-> <<>>]
    /\ NoCall
    /\ streak = 0 /\ streak0 = 0 /\ run = 0
    /\ cpc = "start"
    /\ clen \in 0..UINT16_MAX
    /\ cbuf \in {ZeroTag, RequestHeader(clen)}
    /\ cdec = [ok |-> FALSE, len |-> 0]
    /\ LoopbackOff

PutHeader ==
    /\ cpc = "start"
    /\ cbuf' = mac_serial_put_header(cbuf, clen)
    /\ cpc' = "put"
    /\ UNCHANGED <<clen, cdec, session, lastCall, observer, loopback, twin>>

GetHeader ==
    /\ cpc \in {"start", "put"}
    /\ cdec' = mac_serial_get_header(cbuf, cdec.len)
    /\ cpc' = IF cpc = "start" THEN "got" ELSE "putgot"
    /\ UNCHANGED <<clen, cbuf, session, lastCall, observer, loopback, twin>>

NextCodec == PutHeader \/ GetHeader

SpecCodec == CodecInit /\ [][NextCodec]_vars

(***************************************************************************)
(* The fifo alone: batches of bytes are put in and bytes are taken out, in *)
(* any order, MaxOps times at most.  A batch is len bytes that go up by    *)
(* one from seed + 1, so that every byte of it tells its place.  The       *)
(* lengths make the fifo fill exactly (700 + 1300), overflow, and hold     *)
(* less and more than what is asked of it.                                 *)
(***************************************************************************)
MaxOps == 4
PushLens == {1, 700, 1300}
PopLens == {1, 500, FIFO_SIZE}
Seeds == {0, 100}
Payload(seed, len) == [i \in 1..len |-> (seed + i) % 256]

\* fifoPutData(&fifo, buf, len)
FifoPut ==
    /\ ops < MaxOps
    /\ \E len \in PushLens, seed \in Seeds :
         \E buf \in {Payload(seed, len)} :
            /\ fifo' = fifoPutData(fifo, buf, len)
            /\ pushed' = IF fifo.fifoLen + len <= FIFO_SIZE
                          THEN pushed \o buf ELSE pushed
            /\ blkIn' = buf /\ blkOut' = <<>>
            /\ opLen' = len /\ opRet' = 0
    /\ argMode' = MAC_SERIAL_WRITE
    /\ pre' = [pre EXCEPT !.fifoLen = fifo.fifoLen]
    /\ ops' = ops + 1
    /\ UNCHANGED <<mac_serial_state, mac_serial_knock, mac_serial_drive,
                   mac_serial_sector, pc, argDrive, argSector, tagIn, tagOut,
                   ret, knocked, delegated, rejectAt, observer, codec,
                   popped, opOff, handled, drain, twin>>

\* fifoGetData(&fifo, buf, len)
FifoGet ==
    /\ ops < MaxOps
    /\ \E len \in PopLens :
         \E r \in {fifoGetData(fifo, len)} :
            /\ fifo' = r.fb
            /\ popped' = popped \o r.buf
            /\ blkOut' = r.buf /\ blkIn' = <<>>
            /\ opLen' = len /\ opRet' = r.ret
    /\ argMode' = MAC_SERIAL_READ
    /\ pre' = [pre EXCEPT !.fifoLen = fifo.fifoLen]
    /\ ops' = ops + 1
    /\ UNCHANGED <<mac_serial_state, mac_serial_knock, mac_serial_drive,
                   mac_serial_sector, pc, argDrive, argSector, tagIn, tagOut,
                   ret, knocked, delegated, rejectAt, observer, codec,
                   pushed, opOff, handled, drain, twin>>

NextFifo == FifoPut \/ FifoGet

SpecFifo == Init /\ [][NextFifo]_vars

(***************************************************************************)
(* The channel: accesses that is_mac_serial_io hands on to                 *)
(* mac_serial_magic_sector_io, at the negative LBA in any phase and at the *)
(* magic sector of the claimed drive in the last phase.  The session       *)
(* starts in any of the four phases as a handshake leaves it, with a fifo  *)
(* that earlier writes filled to one of FifoLevels; MaxCalls accesses      *)
(* follow.  The tags hold no header, one of 3 bytes or one of 600 (more    *)
(* than a block); the blocks hold numbered bytes, with no header or with   *)
(* one of 5 bytes or of 600 in front.                                      *)
(***************************************************************************)
MaxCalls == 2
FifoLevels == {0, 300, 1024, 1800}
FifoHolding(n) == [fifoLen |-> n, fifoData |-> Payload(50, n)]
ChannelSector == CHOOSE x \in ExtraSectors : \A y \in ExtraSectors : x <= y
DataBlock == Payload(0, BLOCK_SIZE)
HeaderBlock(len) == CopyInto(DataBlock, 0, RequestHeader(len))
ChannelTags == {ZeroTag, RequestHeader(3), RequestHeader(600)}
ChannelBlocks == {DataBlock, HeaderBlock(5), HeaderBlock(600)}

\* What the host reads in a header, whatever its first four bytes.
DeclaredLen(buf) == buf[7] * 256 + buf[8]
\* The payload the host takes from a block it has read.
ReplyPayload(blk) ==
    SubSeq(blk, MAC_SERIAL_HEADER_LEN + 1,
           MAC_SERIAL_HEADER_LEN
             + MIN(DeclaredLen(blk), BLOCK_SIZE - MAC_SERIAL_HEADER_LEN))

ChannelInit ==
    /\ mac_serial_state \in States
    /\ mac_serial_knock = 0
    /\ mac_serial_drive = 0
    /\ mac_serial_sector =
          IF mac_serial_state \in {MAC_SERIAL_WAIT_MAGIC_READ, MAC_SERIAL_WAIT_MAGIC_SECTOR}
          THEN ChannelSector ELSE 0
    /\ fifo \in {FifoHolding(n) : n \in FifoLevels}
    /\ NoCall
    /\ streak = 0 /\ streak0 = 0 /\ run = 0
    /\ CodecOff
    /\ pushed = fifo.fifoData /\ popped = <<>> /\ ops = 0
    /\ opLen = 0 /\ opRet = 0 /\ opOff = 0 /\ handled = FALSE
    /\ drain = [from |-> 0, reads |-> 0]
    /\ TwinOff

\* The addresses at which the session in phase state hands an access on.
ChannelSectors(state, sector) ==
    {MAC_SERIAL_NEGATIVE_LBA}
      \cup (IF state = MAC_SERIAL_WAIT_MAGIC_SECTOR THEN {sector} ELSE {})

\* One access of the channel with buffers drawn from tags and blocks; io is
\* the call of mac_serial_magic_sector_io that is_mac_serial_io makes.
ChannelAccess(modes, tags, blocks) ==
    \E sector \in ChannelSectors(mac_serial_state, mac_serial_sector),
       mode \in modes, tagPtr \in tags, blkPtr \in blocks :
      \E r \in {is_mac_serial_io(Session, mac_serial_drive, sector, tagPtr, blkPtr, mode)},
         io \in {mac_serial_magic_sector_io(fifo, tagPtr, blkPtr, mode)} :
         /\ mac_serial_state' = r.s.state
         /\ mac_serial_knock' = r.s.knock
         /\ mac_serial_drive' = r.s.drive
         /\ mac_serial_sector' = r.s.sector
         /\ fifo' = r.s.fifo
         /\ pre' = [state |-> mac_serial_state, knock |-> mac_serial_knock,
                     drive |-> mac_serial_drive, sector |-> mac_serial_sector,
                     fifoLen |-> fifo.fifoLen]
         /\ argDrive' = mac_serial_drive /\ argSector' = sector /\ argMode' = mode
         /\ tagIn' = tagPtr /\ blkIn' = blkPtr
         /\ tagOut' = r.tag /\ blkOut' = r.blk
         /\ ret' = r.ret /\ knocked' = r.knocked /\ delegated' = r.delegated
         /\ rejectAt' = r.rejectAt
         /\ handled' = io.ret /\ opOff' = io.hoff /\ opLen' = io.hlen
         /\ opRet' = 0
         /\ pushed' = IF mode = MAC_SERIAL_WRITE /\ io.ret
                           /\ fifo.fifoLen + io.hlen <= FIFO_SIZE
                       THEN pushed \o SubSeq(blkPtr, io.hoff + 1, io.hoff + io.hlen)
                       ELSE pushed
         /\ popped' = IF mode = MAC_SERIAL_READ
                       THEN popped \o ReplyPayload(r.blk) ELSE popped

ChannelCall ==
    /\ ops < MaxCalls
    /\ ChannelAccess(Modes, ChannelTags, ChannelBlocks)
    /\ pc' = "returned"
    /\ ops' = ops + 1
    /\ UNCHANGED <<observer, codec, drain, twin>>

NextChannel == ChannelCall

SpecChannel == ChannelInit /\ [][NextChannel]_vars

(***************************************************************************)
(* The loopback: a host that writes to the channel and reads from it in    *)
(* any order, at the negative LBA and at the magic sector, from an empty   *)
(* fifo on.  It writes MaxWrites times at most and may stop writing at any *)
(* time before (pc = "draining"); from then on it only reads.  A write     *)
(* carries a block of 512 bytes with the header in the tags, or 500 bytes  *)
(* behind a header in the block.                                           *)
(***************************************************************************)
MaxWrites == 4
LoopbackTags == {ZeroTag, RequestHeader(600)}
LoopbackBlocks == {HeaderBlock(600)}

LoopbackInit ==
    /\ ChannelInit
    /\ mac_serial_state \in {MAC_SERIAL_WAIT_KNOCK, MAC_SERIAL_WAIT_MAGIC_SECTOR}
    /\ fifo.fifoLen = 0

LoopbackWrite ==
    /\ pc # "draining"
    /\ ops < MaxWrites
    /\ ChannelAccess({MAC_SERIAL_WRITE}, LoopbackTags, LoopbackBlocks)
    /\ pc' = "returned"
    /\ ops' = ops + 1
    /\ UNCHANGED <<observer, codec, drain, twin>>

LoopbackRead ==
    /\ ChannelAccess({MAC_SERIAL_READ}, {ZeroTag}, {ZeroBlock})
    /\ pc' = IF pc = "draining" THEN pc ELSE "returned"
    /\ drain' = IF pc = "draining" /\ fifo.fifoLen > 0
                 THEN [drain EXCEPT !.reads = @ + 1] ELSE drain
    /\ UNCHANGED <<ops, observer, codec, twin>>

\* The host has written all it had to write.
StopWrites ==
    /\ pc # "draining"
    /\ pc' = "draining"
    /\ drain' = [from |-> fifo.fifoLen, reads |-> 0]
    /\ UNCHANGED <<session, pre, argDrive, argSector, argMode, tagIn, blkIn,
                   tagOut, blkOut, ret, knocked, delegated, rejectAt,
                   observer, codec, pushed, popped, ops, opLen, opRet, opOff,
                   handled, twin>>

NextLoopback == LoopbackWrite \/ LoopbackRead \/ StopWrites

SpecLoopback == LoopbackInit /\ [][NextLoopback]_vars

(***************************************************************************)
(* Two runs of the program that get the same calls (drive, sector and      *)
(* direction) with different buffers: the first gets any of Tags and       *)
(* Blocks in every call, the second (twin) tags and a block of zeros.  Of  *)
(* the call made the direction, the values the two runs returned and       *)
(* whether the first run handed it on to the channel are kept until the    *)
(* caller goes on.                                                         *)
(***************************************************************************)
PairCall ==
    /\ pc = "idle"
    /\ pc' = "returned"
    /\ \E drive \in Drives, sector \in Sectors, mode \in Modes,
          tagPtr \in Tags, blkPtr \in Blocks :
         \E r \in {is_mac_serial_io(Session, drive, sector, tagPtr, blkPtr, mode)},
            t \in {is_mac_serial_io([state |-> twin.state, knock |-> twin.knock,
                                      drive |-> twin.drive, sector |-> twin.sector,
                                      fifo |-> twin.fifo],
                                     drive, sector, ZeroTag, ZeroBlock, mode)} :
            /\ mac_serial_state' = r.s.state
            /\ mac_serial_knock' = r.s.knock
            /\ mac_serial_drive' = r.s.drive
            /\ mac_serial_sector' = r.s.sector
            /\ fifo' = r.s.fifo
            /\ argMode' = mode /\ ret' = r.ret /\ delegated' = r.delegated
            /\ twin' = [state |-> t.s.state, knock |-> t.s.knock,
                         drive |-> t.s.drive, sector |-> t.s.sector,
                         fifo |-> t.s.fifo, ret |-> t.ret]
    /\ UNCHANGED <<pre, argDrive, argSector, tagIn, blkIn, tagOut, blkOut,
                   knocked, rejectAt, observer, codec, loopback>>

\* The callers of the two runs go on.
PairReturn ==
    /\ pc = "returned"
    /\ pc' = "idle"
    /\ argMode' = MAC_SERIAL_READ /\ ret' = FALSE /\ delegated' = FALSE
    /\ twin' = [twin EXCEPT !.ret = FALSE]
    /\ UNCHANGED <<session, pre, argDrive, argSector, tagIn, blkIn, tagOut, blkOut,
                   knocked, rejectAt, observer, codec, loopback>>

NextPair == PairCall \/ PairReturn

SpecPair == Init /\ [][NextPair]_vars

(***************************************************************************)
(* The phases of the handshake, and the last call as the claims read it.   *)
(***************************************************************************)
Idle == MAC_SERIAL_WAIT_KNOCK
ClaimedDrive == MAC_SERIAL_WAIT_MAGIC_WRITE
SectorPending == MAC_SERIAL_WAIT_MAGIC_READ
Active == MAC_SERIAL_WAIT_MAGIC_SECTOR

Returned == pc = "returned"
Sentinel == argSector = MAC_SERIAL_NEGATIVE_LBA
\* The address the knock detection expected when the call was made.
Expected == MAC_SERIAL_KNOCK_SEQ[pre.knock + 1]
LastKnock == MAC_SERIAL_KNOCK_SEQ[Len(MAC_SERIAL_KNOCK_SEQ)]

(***************************************************************************)
(* C1 (as claimed; under SpecKnock).  When the last five calls carried the *)
(* addresses 0, 70, 85, 74, 73 in order and the knock counter was 0 before *)
(* the first of them, the fifth call returns with the phase ClaimedDrive,  *)
(* the claimed drive that of the fifth call and the magic sector 0,        *)
(* whatever the phase before and the drives and directions of the calls.   *)
(* The code violates it: a fifth call that is a write falls through to the *)
(* ClaimedDrive case and is itself taken as the magic write.               *)
(***************************************************************************)
C1_KnockClaimsDrive ==
    (Returned /\ streak = 5 /\ streak0 = 0) =>
        /\ mac_serial_state = ClaimedDrive
        /\ mac_serial_drive = argDrive
        /\ mac_serial_sector = 0

(***************************************************************************)
(* C2 (as claimed; under SpecKnock).  Whatever the knock counter was       *)
(* before, five calls in a row with the addresses 0, 70, 85, 74, 73        *)
(* complete the knock on the fifth.  The code violates it: with the        *)
(* counter at 1..4 the restarting 0 is a mismatch that only resets the     *)
(* counter, and the four addresses after it find the counter at 0.         *)
(***************************************************************************)
C2_RestartCompletes ==
    (Returned /\ streak = 5) => knocked

(***************************************************************************)
(* C3 (as claimed; under SpecKnock).  The knock counter goes up by one     *)
(* (wrapping to 0 on the fifth) when the address of a call is the expected *)
(* one, and every call with another address, the negative LBA included,    *)
(* returns with the counter at 0; the knock completes only on the fifth of *)
(* five calls in a row carrying the sequence.                              *)
(***************************************************************************)
C3_AnyOtherAddressResets ==
    Returned =>
        /\ IF argSector = Expected
           THEN mac_serial_knock = (pre.knock + 1) % 5
           ELSE mac_serial_knock = 0
        /\ knocked => streak = 5

(***************************************************************************)
(* C3 (amended; under SpecKnock).  A call at the negative LBA leaves the   *)
(* knock counter as it was.  Of the other calls, one with the expected     *)
(* address moves the counter up by one (to 0 on the fifth, which completes *)
(* the knock) and one with any other address leaves it at 0.  The knock    *)
(* completes only when the five addresses arrived in order in calls that   *)
(* are contiguous but for calls at the negative LBA between them.          *)
(***************************************************************************)
C3_KnockCounter ==
    Returned =>
        /\ Sentinel => mac_serial_knock = pre.knock /\ ~knocked
        /\ (~Sentinel /\ argSector = Expected) =>
              /\ mac_serial_knock = (pre.knock + 1) % 5
              /\ knocked <=> pre.knock = 4
        /\ (~Sentinel /\ argSector # Expected) => mac_serial_knock = 0 /\ ~knocked
        /\ knocked => run = 5

\* A call at the negative LBA in the middle of a knock, and the knock
\* completed later by the rest of the sequence.
C3_Witness ==
    /\ Returned /\ knocked /\ run = 5 /\ streak < 5
    /\ argSector = LastKnock /\ pre.knock = 4

\* What a call at the negative LBA does, as a step from the session before.
SentinelStep ==
    (pc' = "returned" /\ argSector' = MAC_SERIAL_NEGATIVE_LBA) =>
        LET io == mac_serial_magic_sector_io(fifo, tagIn', blkIn', argMode') IN
        /\ delegated'
        /\ fifo' = io.fifo /\ blkOut' = io.blk /\ tagOut' = tagIn'
        /\ ret' = TRUE
        /\ mac_serial_state' = IF mac_serial_state = Active THEN Active ELSE Idle

(***************************************************************************)
(* C4 (under Spec).  A call at the negative LBA hands the access to        *)
(* mac_serial_magic_sector_io, whose effect on the fifo and the block is   *)
(* the call's, and returns true, in every phase and direction; the phase   *)
(* afterwards is Active if it was Active and Idle otherwise.               *)
(***************************************************************************)
C4_SentinelAlwaysHandled == [][SentinelStep]_vars

\* A write at the negative LBA in the middle of a handshake, forwarded to
\* the fifo, with the phase back to Idle.
C4_Witness ==
    /\ Returned /\ Sentinel /\ argMode = MAC_SERIAL_WRITE
    /\ pre.state = SectorPending /\ mac_serial_state = Idle
    /\ ret /\ fifo.fifoLen > pre.fifoLen

\* What a call in phase Idle does when its address is neither the negative
\* LBA nor the expected knock address, as a step from the session before.
IdleStep ==
    (/\ pc' = "returned"
     /\ mac_serial_state = Idle
     /\ argSector' # MAC_SERIAL_NEGATIVE_LBA
     /\ argSector' # MAC_SERIAL_KNOCK_SEQ[mac_serial_knock + 1]) =>
        /\ ret' = FALSE
        /\ tagOut' = tagIn' /\ blkOut' = blkIn'
        /\ fifo' = fifo
        /\ mac_serial_state' = Idle

(***************************************************************************)
(* C5 (under Spec).  In phase Idle a call whose address is neither the     *)
(* negative LBA nor the expected knock address returns false and leaves    *)
(* the tag buffer, the block buffer, the fifo and the phase as they were.  *)
(***************************************************************************)
C5_IdlePassThrough == [][IdleStep]_vars

\* A write of a magic block in Idle, on the drive left claimed by an
\* abandoned handshake, with bytes waiting in the fifo.
C5_Witness ==
    /\ Returned /\ pre.state = Idle /\ ~Sentinel /\ argSector # Expected
    /\ argMode = MAC_SERIAL_WRITE /\ blkIn = MagicBlock /\ argDrive = pre.drive
    /\ pre.knock > 0 /\ pre.fifoLen > 0 /\ ~ret

(***************************************************************************)
(* C6 (under Spec).  The call that completes the knock sequence returns    *)
(* with the reply header of length 0 in the first 12 bytes of the tag      *)
(* buffer: "FUJI" and eight zero bytes, whatever the phase before and the  *)
(* direction of the call.                                                  *)
(***************************************************************************)
C6_KnockReplyHeader ==
    (Returned /\ knocked) =>
        SubSeq(tagOut, 1, 12) = <<70, 85, 74, 73, 0, 0, 0, 0, 0, 0, 0, 0>>

\* The knock completed by a write while the channel was Active, the tag
\* buffer having come in as a request header.
C6_Witness ==
    /\ Returned /\ knocked /\ pre.knock = 4 /\ argSector = LastKnock
    /\ pre.state = Active /\ argMode = MAC_SERIAL_WRITE
    /\ tagIn = RequestHeader(0) /\ tagOut # tagIn

MagicReadReply ==
    /\ SubSeq(tagOut, 1, 12) = <<70, 85, 74, 73, 0, 0, 0, 8, 0, 0, 0, 0>>
    /\ SubSeq(blkOut, 1, 4) = <<70, 85, 74, 73>>
    /\ \A i \in 5..8 : blkOut[i] \in 0..255
    /\ blkOut[5] * 16777216 + blkOut[6] * 65536 + blkOut[7] * 256 + blkOut[8]
          = pre.sector
    /\ mac_serial_state = Active
    /\ ret = TRUE

MagicReadMatch ==
    argMode = MAC_SERIAL_READ /\ argDrive = pre.drive /\ argSector = pre.sector

(***************************************************************************)
(* C8 (as claimed; under Spec).  In phase SectorPending every read on the  *)
(* claimed drive at the remembered sector gets the reply above; every      *)
(* other access off the negative LBA that does not complete a knock        *)
(* returns false and leaves the phase, the remembered sector and both      *)
(* buffers as they were.                                                   *)
(***************************************************************************)
C8_EveryMatchingRead ==
    (Returned /\ pre.state = SectorPending /\ ~Sentinel) =>
        IF MagicReadMatch
        THEN MagicReadReply
        ELSE ~knocked =>
                /\ ret = FALSE
                /\ mac_serial_state = SectorPending
                /\ mac_serial_sector = pre.sector
                /\ tagOut = tagIn /\ blkOut = blkIn

(***************************************************************************)
(* C8 (amended; under Spec).  In phase SectorPending a read on the claimed *)
(* drive at the remembered sector that does not complete a knock gets the  *)
(* reply above; every other access off the negative LBA that does not      *)
(* complete a knock returns false and leaves the phase, the remembered     *)
(* sector and both buffers as they were.                                   *)
(***************************************************************************)
C8_MagicRead ==
    (Returned /\ pre.state = SectorPending /\ ~Sentinel /\ ~knocked) =>
        IF MagicReadMatch
        THEN MagicReadReply
        ELSE /\ ret = FALSE
             /\ mac_serial_state = SectorPending
             /\ mac_serial_sector = pre.sector
             /\ tagOut = tagIn /\ blkOut = blkIn

\* The confirming read of a sector whose four address bytes all differ.
C8_Witness ==
    /\ Returned /\ pre.state = SectorPending /\ ~knocked /\ MagicReadMatch
    /\ pre.sector \in ExtraSectors
    /\ SubSeq(blkOut, 5, 8) = <<1, 2, 3, 4>>
    /\ mac_serial_state = Active /\ ret

\* What phase Active does with an access: handed to
\* mac_serial_magic_sector_io, whose result is the value returned, or left
\* alone with the value false and the fifo and the block unchanged.
HandedToChannel ==
    LET io == mac_serial_magic_sector_io(fifo, tagIn', blkIn', argMode') IN
    /\ delegated'
    /\ ret' = io.ret /\ fifo' = io.fifo /\ blkOut' = io.blk

LeftAlone ==
    /\ ~delegated'
    /\ ret' = FALSE /\ fifo' = fifo /\ blkOut' = blkIn'

ActiveAccessStep ==
    IF argDrive' = mac_serial_drive /\ argSector' = mac_serial_sector
    THEN HandedToChannel
    ELSE IF argSector' = MAC_SERIAL_NEGATIVE_LBA
         THEN delegated'
         ELSE LeftAlone

(***************************************************************************)
(* C9 (as claimed; under Spec).  In phase Active an access on the claimed  *)
(* drive at the magic sector is handed to the channel handler, whose       *)
(* result is the value returned.  (The rest of the claim, which accesses   *)
(* are not handed over and what they return, is in ActiveAccessStep.)      *)
(***************************************************************************)
C9_MatchIsDelegated ==
    [][(/\ pc' = "returned" /\ mac_serial_state = Active
        /\ argDrive' = mac_serial_drive /\ argSector' = mac_serial_sector)
          => HandedToChannel]_vars

(***************************************************************************)
(* C9 (amended; under Spec).  The same for every access in phase Active    *)
(* that does not complete a knock sequence.                                *)
(***************************************************************************)
C9_ActiveDelegation ==
    [][(pc' = "returned" /\ mac_serial_state = Active /\ ~knocked')
          => ActiveAccessStep]_vars

\* A write without a header at the magic sector, refused by the handler,
\* and so by the call.
C9_Witness ==
    /\ Returned /\ pre.state = Active /\ ~knocked
    /\ argDrive = pre.drive /\ argSector = pre.sector
    /\ argMode = MAC_SERIAL_WRITE /\ delegated /\ ~ret

(***************************************************************************)
(* C10 (as claimed; under SpecCodec).  mac_serial_get_header applied to    *)
(* the 12 bytes mac_serial_put_header produced for a length in 0..65535    *)
(* reports a valid header and that length.                                 *)
(***************************************************************************)
C10_RoundTrip ==
    cpc = "putgot" => (cdec.ok /\ cdec.len = clen)

(***************************************************************************)
(* C10 (amended; under SpecCodec).  For every length in 0..65535,          *)
(* mac_serial_get_header reports the 12 bytes mac_serial_put_header        *)
(* produced as invalid, as they carry the reply marker and not the request *)
(* marker, and recovers no length; the length is in the bytes, bytes 6-7   *)
(* holding it most significant byte first, and mac_serial_get_header       *)
(* recovers it from a header with the request marker and the same bytes    *)
(* 4-11.                                                                   *)
(***************************************************************************)
C10_LengthField ==
    /\ cpc = "putgot" =>
          /\ ~cdec.ok /\ cdec.len = 0
          /\ SubSeq(cbuf, 1, 4) = <<70, 85, 74, 73>>
          /\ cbuf[7] \in 0..255 /\ cbuf[8] \in 0..255
          /\ cbuf[7] * 256 + cbuf[8] = clen
    /\ (cpc = "got" /\ SubSeq(cbuf, 1, 4) = <<78, 68, 69, 86>>) =>
          /\ cdec.ok /\ cdec.len = clen
          /\ SubSeq(cbuf, 5, 12) = SubSeq(mac_serial_put_header(cbuf, clen), 5, 12)

\* A length with two different non-zero bytes, encoded and then refused.
C10_Witness ==
    cpc = "putgot" /\ clen = 4660 /\ cbuf[7] = 18 /\ cbuf[8] = 52 /\ ~cdec.ok

IsPrefix(a, b) == Len(a) <= Len(b) /\ a = SubSeq(b, 1, Len(a))

\* The last operation on the fifo was a put, a get.
PutDone == ops' = ops + 1 /\ argMode' = MAC_SERIAL_WRITE
GetDone == ops' = ops + 1 /\ argMode' = MAC_SERIAL_READ

\* What C11 says of one step of the fifo.
FifoPutStep ==
    /\ fifo.fifoLen \in 0..FIFO_SIZE /\ fifo'.fifoLen \in 0..FIFO_SIZE
    /\ Len(fifo'.fifoData) = fifo'.fifoLen
    /\ PutDone =>
          IF fifo.fifoLen + opLen' <= FIFO_SIZE
          THEN /\ fifo'.fifoLen = fifo.fifoLen + opLen'
               /\ fifo'.fifoData = fifo.fifoData \o blkIn'
          ELSE fifo' = fifo

(***************************************************************************)
(* C11 (under SpecFifo).  Whatever was put into and taken out of the fifo, *)
(* its length is in 0..2000.  A put of len bytes with fifoLen + len <=     *)
(* 2000 appends all of them; any other put leaves the length and the       *)
(* contents of the fifo as they were.                                      *)
(***************************************************************************)
C11_PutAllOrNothing == [][FifoPutStep]_vars

\* A batch put into a fifo that holds bytes but lacks the room for it.
C11_Witness ==
    /\ ops > 0 /\ argMode = MAC_SERIAL_WRITE
    /\ pre.fifoLen > 0 /\ pre.fifoLen < FIFO_SIZE
    /\ pre.fifoLen + opLen > FIFO_SIZE
    /\ fifo.fifoLen = pre.fifoLen

\* What C12 says of one step of the fifo.
FifoGetStep ==
    /\ GetDone =>
          /\ opRet' = MIN(fifo.fifoLen, opLen')
          /\ blkOut' = SubSeq(fifo.fifoData, 1, opRet')
          /\ fifo'.fifoData = SubSeq(fifo.fifoData, opRet' + 1, fifo.fifoLen)
          /\ fifo'.fifoLen = fifo.fifoLen - opRet'
    /\ IsPrefix(popped', pushed')
    /\ pushed' = popped' \o fifo'.fifoData

(***************************************************************************)
(* C12 (under SpecFifo).  fifoGetData(len) returns min(fifoLen, len)       *)
(* bytes, the oldest ones in the order they were put in; the bytes left    *)
(* keep their order at the front of the fifo and fifoLen goes down by the  *)
(* count returned.  All the bytes taken out so far, in order, are the      *)
(* beginning of all the bytes of the batches that were accepted, and the   *)
(* fifo holds the rest.                                                    *)
(***************************************************************************)
C12_FifoOrder == [][FifoGetStep]_vars

\* A get that takes a part of what two batches left in the fifo.
C12_Witness ==
    /\ ops > 0 /\ argMode = MAC_SERIAL_READ
    /\ opRet = opLen /\ opRet > 1
    /\ fifo.fifoLen > 0
    /\ Len(pushed) > 1300
    /\ Len(popped) > opRet

(***************************************************************************)
(* The last access of the channel as the claims read it.                   *)
(***************************************************************************)
HasMarker(buf) == SubSeq(buf, 1, 4) = MAC_SERIAL_REQUEST_TAG
ChannelWrite == ops > 0 /\ delegated /\ argMode = MAC_SERIAL_WRITE
ChannelRead == ops > 0 /\ delegated /\ argMode = MAC_SERIAL_READ
\* The room a block has for a payload behind a header of h bytes in it.
Room(h) == BLOCK_SIZE - h

(***************************************************************************)
(* C13 (as claimed; under SpecChannel).  The length of every frame is at   *)
(* most 512 less the size of the header in the block: that of a write as   *)
(* it is forwarded (at most 500 behind a header in the block, 512 with the *)
(* header in the tags), and that of a read reply, whose header is in the   *)
(* block, as its header declares it (at most 500).                         *)
(***************************************************************************)
C13_FrameLength ==
    /\ (ChannelWrite /\ handled) => opLen <= Room(opOff)
    /\ ChannelRead => DeclaredLen(blkOut) <= Room(MAC_SERIAL_HEADER_LEN)

(***************************************************************************)
(* C13 (amended; under SpecChannel).  The bytes forwarded by a write lie   *)
(* in the block: their count is at most 512 less the size of the header in *)
(* the block (500 behind a header in the block, 512 with the header in the *)
(* tags).  A read reply carries at most 500 bytes behind its header, but   *)
(* the length its header declares is that of the fifo before the read,     *)
(* which is at most 2000 and more than 500 when the fifo held more.        *)
(***************************************************************************)
C13_PayloadLength ==
    /\ (ChannelWrite /\ handled) =>
          /\ opOff \in {0, MAC_SERIAL_HEADER_LEN}
          /\ opLen \in 0..Room(opOff)
    /\ ChannelRead =>
          /\ opOff = MAC_SERIAL_HEADER_LEN /\ opLen = Room(opOff)
          /\ pre.fifoLen - fifo.fifoLen \in 0..Room(opOff)
          /\ DeclaredLen(blkOut) = pre.fifoLen
          /\ DeclaredLen(blkOut) <= FIFO_SIZE

\* A read of a fifo that holds more than a block has room for, after a
\* write that was clamped to the 500 bytes behind its header in the block.
C13_Witness ==
    /\ ChannelRead /\ ops = 2
    /\ DeclaredLen(blkOut) > Room(MAC_SERIAL_HEADER_LEN)
    /\ pre.fifoLen - fifo.fifoLen = Room(MAC_SERIAL_HEADER_LEN)
    /\ Len(pushed) = 1024 + Room(MAC_SERIAL_HEADER_LEN)

\* The step is a write handed on to the channel with the request marker
\* neither in the tags nor in the block.
RefusedWriteDone ==
    /\ ops' = ops + 1 /\ delegated' /\ argMode' = MAC_SERIAL_WRITE
    /\ ~HasMarker(tagIn') /\ ~HasMarker(blkIn')

\* What mac_serial_magic_sector_io does with such a write.
RefusedWriteIo ==
    /\ ~handled'
    /\ fifo' = fifo
    /\ tagOut' = tagIn' /\ blkOut' = blkIn'
    /\ mac_serial_drive' = mac_serial_drive
    /\ mac_serial_sector' = mac_serial_sector

RefusedWriteAsClaimed ==
    RefusedWriteDone =>
        /\ RefusedWriteIo
        /\ mac_serial_state' = mac_serial_state
        /\ (mac_serial_state = Active /\ argSector' = mac_serial_sector) => ~ret'

RefusedWriteStep ==
    RefusedWriteDone =>
        /\ RefusedWriteIo
        /\ IF argSector' = MAC_SERIAL_NEGATIVE_LBA
           THEN /\ ret'
                /\ mac_serial_state' = IF mac_serial_state = Active THEN Active ELSE Idle
           ELSE /\ ~ret'
                /\ mac_serial_state = Active /\ mac_serial_state' = Active

(***************************************************************************)
(* C14 (as claimed; under SpecChannel).  A channel write with the request  *)
(* marker neither at the start of the tags nor at the start of the block   *)
(* is refused: mac_serial_magic_sector_io returns false, the fifo and both *)
(* buffers are as before, and so are the phase, the claimed drive and the  *)
(* magic sector; in phase Active at the magic sector is_mac_serial_io      *)
(* returns false.                                                          *)
(***************************************************************************)
C14_RefusedWriteKeepsPhase == [][RefusedWriteAsClaimed]_vars

(***************************************************************************)
(* C14 (amended; under SpecChannel).  A channel write with the request     *)
(* marker neither at the start of the tags nor at the start of the block   *)
(* is refused: mac_serial_magic_sector_io returns false, and the fifo,     *)
(* both buffers, the claimed drive and the magic sector are as before.  At *)
(* the magic sector in phase Active the phase stays Active and             *)
(* is_mac_serial_io returns false.  At the negative LBA is_mac_serial_io   *)
(* returns true and the phase is Idle afterwards unless it was Active.     *)
(***************************************************************************)
C14_RefusedWrite == [][RefusedWriteStep]_vars

\* A write without a header at the magic sector of an Active session whose
\* fifo holds bytes.
C14_Witness ==
    /\ ChannelWrite /\ ~HasMarker(tagIn) /\ ~HasMarker(blkIn)
    /\ pre.state = Active /\ argSector = mac_serial_sector
    /\ ~handled /\ ~ret
    /\ fifo.fifoLen = pre.fifoLen /\ fifo.fifoLen > 0

\* The step is a read handed on to the channel.
ChannelReadDone == ops' = ops + 1 /\ delegated' /\ argMode' = MAC_SERIAL_READ

\* The reply header for a fifo that held avail bytes.
ReplyHeader(avail) ==
    MAC_SERIAL_REPLY_TAG \o <<0, 0, avail \div 256, avail % 256, 0, 0, 0, 0>>

ChannelReadStep ==
    ChannelReadDone =>
        LET A == fifo.fifoLen
            n == MIN(A, Room(MAC_SERIAL_HEADER_LEN))
        IN /\ handled' /\ ret'
           /\ SubSeq(blkOut', 1, MAC_SERIAL_HEADER_LEN) = ReplyHeader(A)
           /\ SubSeq(blkOut', MAC_SERIAL_HEADER_LEN + 1, MAC_SERIAL_HEADER_LEN + n)
                 = SubSeq(fifo.fifoData, 1, n)
           /\ SubSeq(blkOut', MAC_SERIAL_HEADER_LEN + n + 1, BLOCK_SIZE)
                 = SubSeq(blkIn', MAC_SERIAL_HEADER_LEN + n + 1, BLOCK_SIZE)
           /\ fifo'.fifoLen = A - n
           /\ fifo'.fifoData = SubSeq(fifo.fifoData, n + 1, A)
           /\ popped' = popped \o SubSeq(fifo.fifoData, 1, n)
           /\ tagOut' = tagIn'
           /\ A > Room(MAC_SERIAL_HEADER_LEN) =>
                 /\ DeclaredLen(blkOut') > n
                 /\ fifo'.fifoLen = A - Room(MAC_SERIAL_HEADER_LEN)

(***************************************************************************)
(* C15 (under SpecChannel).  A channel read is always handled.  With A the *)
(* length of the fifo when it is made, it puts the min(A, 500) oldest      *)
(* bytes of the fifo at the offsets 12.. of the block and the reply header *)
(* ("FUJI", length A) at the offsets 0..11, takes just those bytes out of  *)
(* the fifo and leaves the tags as they are.  With A > 500 the header      *)
(* declares more than the block carries and the A - 500 bytes left stay in *)
(* the fifo, in order, for the reads that follow.                          *)
(***************************************************************************)
C15_ChannelRead == [][ChannelReadStep]_vars

\* The read that follows a read of a fifo of 1024 bytes: it finds 524.
C15_Witness ==
    /\ ChannelRead /\ ops = 2 /\ handled /\ ret
    /\ pre.fifoLen = 524 /\ DeclaredLen(blkOut) = 524
    /\ Len(popped) = 1000 /\ fifo.fifoLen = 24
    /\ popped = SubSeq(pushed, 1, 1000)

\* The step is a write handed on to the channel with the request marker in
\* the tags or in the block.
ChannelWriteDone ==
    /\ ops' = ops + 1 /\ delegated' /\ argMode' = MAC_SERIAL_WRITE
    /\ HasMarker(tagIn') \/ HasMarker(blkIn')

ChannelWriteStep ==
    ChannelWriteDone =>
        LET inTags == HasMarker(tagIn')
            h == IF inTags THEN 0 ELSE MAC_SERIAL_HEADER_LEN
            L == IF inTags THEN DeclaredLen(tagIn') ELSE DeclaredLen(blkIn')
            n == MIN(L, BLOCK_SIZE - h)
        IN /\ handled' /\ ret'
           /\ opOff' = h /\ opLen' = n
           /\ h + n <= BLOCK_SIZE
           /\ IF fifo.fifoLen + n <= FIFO_SIZE
              THEN /\ fifo'.fifoLen = fifo.fifoLen + n
                   /\ fifo'.fifoData = fifo.fifoData \o SubSeq(blkIn', h + 1, h + n)
              ELSE fifo' = fifo
           /\ tagOut' = tagIn' /\ blkOut' = blkIn'

(***************************************************************************)
(* C16 (under SpecChannel).  A channel write takes its header from the     *)
(* tags when they begin with the request marker, also when the block       *)
(* begins with it too, and from the first 12 bytes of the block otherwise. *)
(* With h = 0 for a header in the tags and 12 for one in the block, and L  *)
(* the length the header declares, the min(L, 512 - h) bytes of the block  *)
(* from offset h on are forwarded, which all lie in the block, and the     *)
(* write is handled, also when the fifo drops them for lack of room.       *)
(***************************************************************************)
C16_ChannelWrite == [][ChannelWriteStep]_vars

\* A write with a header of 600 bytes in the tags and another header in the
\* block, which the fifo holding 1800 bytes drops.
C16_Witness ==
    /\ ChannelWrite /\ HasMarker(tagIn) /\ HasMarker(blkIn)
    /\ DeclaredLen(tagIn) = 600 /\ opOff = 0 /\ opLen = BLOCK_SIZE
    /\ pre.fifoLen = 1800 /\ fifo.fifoLen = 1800
    /\ handled /\ ret

\* The bytes the reads returned so far are the first of the bytes of the
\* writes the fifo had room for, and the fifo holds the others.
Delivered ==
    /\ IsPrefix(popped, pushed)
    /\ pushed = popped \o fifo.fifoData

\* The reads that empty a fifo of n bytes.
ReadsToDrain(n) ==
    (n + Room(MAC_SERIAL_HEADER_LEN) - 1) \div Room(MAC_SERIAL_HEADER_LEN)

\* Since the host stopped writing every read that found bytes took 500 of
\* them, or all there were.
Draining ==
    pc = "draining" =>
        /\ drain.reads <= ReadsToDrain(drain.from)
        /\ fifo.fifoLen
             = IF drain.reads = ReadsToDrain(drain.from) THEN 0
               ELSE drain.from - drain.reads * Room(MAC_SERIAL_HEADER_LEN)

(***************************************************************************)
(* C17 (under SpecLoopback).  However the host interleaves its channel     *)
(* writes and reads, at the magic sector of an Active session or at the    *)
(* negative LBA, the payloads its reads return, one after the other, are   *)
(* the beginning of the payloads of its writes that the fifo had room for, *)
(* one after the other: no byte comes twice or out of order, and the only  *)
(* bytes that never come are those of whole payloads that did not fit.     *)
(* Once the host has stopped writing with n bytes in the fifo, the fifo is *)
(* empty after ceil(n / 500) reads, which is 4 reads at most.              *)
(***************************************************************************)
C17_LoopbackDelivery ==
    /\ Delivered
    /\ Draining
    /\ ReadsToDrain(drain.from) <= ReadsToDrain(FIFO_SIZE)

\* Three blocks of 512 bytes written and a fourth dropped, then all 1536
\* bytes read back in four reads.
C17_Witness ==
    /\ pc = "draining" /\ ops = 4
    /\ Len(pushed) = 3 * BLOCK_SIZE
    /\ drain.from = 3 * BLOCK_SIZE /\ drain.reads = ReadsToDrain(FIFO_SIZE)
    /\ popped = pushed /\ fifo.fifoLen = 0

\* The step is a call of is_mac_serial_io that completes the knock sequence.
KnockCompleted == pc' = "returned" /\ knocked'

\* What C18 says of one step.
ActiveStep ==
    /\ (mac_serial_state = Active /\ ~KnockCompleted) =>
          /\ mac_serial_state' = Active
          /\ mac_serial_drive' = mac_serial_drive
          /\ mac_serial_sector' = mac_serial_sector
    /\ (mac_serial_state # Active /\ mac_serial_state' = Active) =>
          /\ mac_serial_state = SectorPending
          /\ pc' = "returned" /\ argMode' = MAC_SERIAL_READ
          /\ argDrive' = mac_serial_drive /\ argSector' = mac_serial_sector
          /\ mac_serial_drive' = mac_serial_drive
          /\ mac_serial_sector' = mac_serial_sector

(***************************************************************************)
(* C18 (under Spec).  From phase Active every call that does not complete  *)
(* the knock sequence - a read or a write, accepted or refused, at the     *)
(* negative LBA or at any sector of any drive - returns with the phase     *)
(* Active and with the claimed drive and the magic sector it found.  The   *)
(* phase becomes Active only in a call made in phase SectorPending that    *)
(* reads the magic sector of the claimed drive.                            *)
(***************************************************************************)
C18_ActiveStable == [][ActiveStep]_vars

\* A write without a header at the magic sector of an Active session, which
\* is refused and leaves the session Active.
C18_Witness ==
    /\ Returned /\ pre.state = Active /\ mac_serial_state = Active
    /\ argMode = MAC_SERIAL_WRITE /\ argDrive = mac_serial_drive
    /\ argSector = mac_serial_sector /\ delegated /\ ~ret
    /\ mac_serial_drive = pre.drive /\ mac_serial_sector = pre.sector
    /\ fifo.fifoLen > 0

(***************************************************************************)
(* C19 (under Spec).  The knock counter is in 0..4 in every state, between *)
(* the calls and when a call starts, which is when                         *)
(* mac_serial_detect_knock_sequence takes the element of the sequence of   *)
(* five at the counter.                                                    *)
(***************************************************************************)
C19_KnockCounterInRange ==
    /\ mac_serial_knock \in 0..(NELEMENTS(MAC_SERIAL_KNOCK_SEQ) - 1)
    /\ pre.knock \in 0..(NELEMENTS(MAC_SERIAL_KNOCK_SEQ) - 1)

\* The call that finds the counter at 4 and the last address of the knock.
C19_Witness ==
    /\ Returned /\ ~Sentinel
    /\ pre.knock = NELEMENTS(MAC_SERIAL_KNOCK_SEQ) - 1
    /\ argSector = LastKnock /\ knocked
    /\ mac_serial_knock = 0

====
